---- MODULE Spec2Model ----
(***************************************************************************)
(* Legal-document ingestion: the HTML case-law pipeline                    *)
(* (ZipFiles/vectorize.py, class LegalCaseVectorDB) and the federal-law    *)
(* PDF pipeline (class FederalLawIngestion).                               *)
(*                                                                         *)
(* Two state machines share the module:                                    *)
(*   Spec        one call of chunk_text, one loop iteration per step;      *)
(*   IngestSpec  one ingestion run (process_all_states over its state      *)
(*               folders, or process_pdf_folder), one chunk record per     *)
(*               step, followed by a second run over the same files.       *)
(* Text is a sequence of one-character strings, offsets are Python's       *)
(* 0-based offsets, and slices follow Python's index rules.                *)
(***************************************************************************)
EXTENDS Integers, Sequences, FiniteSets

VARIABLES
    \* ---- chunk_text ----
    variant,      \* "html" (LegalCaseVectorDB) or "pdf" (FederalLawIngestion)
    text,         \* the argument text
    chunk_size,   \* the argument chunk_size
    overlap,      \* the argument overlap
    window,       \* width of the delimiter search window (a literal in the code)
    min_len,      \* minimum-content threshold (a literal in the code)
    start,        \* the loop cursor
    chunks,       \* the list being returned
    spans,        \* history: one record per loop iteration
    pc,           \* "entry", "loop", "done" ("idle" while an ingestion runs)
    \* ---- process_all_states / process_state_folder / process_pdf_folder ----
    files,           \* the files the globs list, in processing order
    batch_size,      \* the argument batch_size
    fi,              \* how many files of the listing the for-loop has taken
    ci,              \* chunk_idx: the next index of enumerate(chunks)
    call,            \* number of the running process_*_folder call
    documents,       \* the three parallel batch lists
    metadatas,
    ids,
    total_chunks,    \* the counters of the running call
    files_processed,
    files_skipped,
    store,           \* the collection: id -> [document, metadata]
    calls,           \* history: every Collection.add call of the run
    generated,       \* history: every chunk record appended in the run
    run,             \* 1: first ingestion, 2: the same files ingested again
    first_run,       \* what the first run left behind
    ipc              \* "files", "chunks", "done" ("idle" while chunk_text runs)

cvars == <<variant, text, chunk_size, overlap, window, min_len, start, chunks, spans, pc>>

ivars == <<files, batch_size, fi, ci, call, documents, metadatas, ids, total_chunks,
           files_processed, files_skipped, store, calls, generated, run, first_run, ipc>>

vars == <<cvars, ivars>>

-----------------------------------------------------------------------------
(* Bounds of the sampled inputs *)

MaxLen == 4
MaxChunk == 3
MaxOverlap == 2
\* the code's window and threshold literals, scaled to the sampled texts
HtmlWindowScaled == 3
PdfWindowScaled == 2
HtmlMinScaled == 0
PdfMinScaled == 1

MaxFiles == 2
MaxChunksPerFile == 2
MaxBatch == 2
\* how many Collection.add calls may fail over the two runs
MaxFail == 1

\* length of the long sample texts, chunked with the code's own literals
LongLen == 3200

(* The literals of the code *)
HtmlWindow == 150
PdfWindow == 200
HtmlMinLen == 50
PdfMinLen == 100
\* the arguments process_state_folder and process_pdf_folder pass
HtmlChunkSize == 1000
HtmlOverlap == 200
PdfChunkSize == 1500
PdfOverlap == 300
\* the default batch_size of both pipelines
DefaultBatchSize == 50

Variants == {"html", "pdf"}
Alphabet == {"a", ".", "?", " "}

SetMax(S) == CHOOSE x \in S : \A y \in S : y <= x
SetMin(S) == CHOOSE x \in S : \A y \in S : x <= y
Min2(a, b) == IF a < b THEN a ELSE b

-----------------------------------------------------------------------------
(* Python string primitives *)

\* the characters str.strip() removes that the texts can hold
IsSpace(c) == c \in {" ", "\n", "\t"}

\* a slice bound as Python adjusts it: a negative one counts from the end,
\* and the result is clipped to 0..n
PyIndex(i, n) ==
    IF i < 0 THEN (IF i + n < 0 THEN 0 ELSE i + n)
    ELSE IF i > n THEN n ELSE i

\* s[i:j]
Slice(s, i, j) ==
    LET a == PyIndex(i, Len(s))
        b == PyIndex(j, Len(s))
    IN  IF a >= b THEN <<>> ELSE SubSeq(s, a + 1, b)

\* s.strip()
Strip(s) ==
    LET solid == {i \in 1..Len(s) : ~IsSpace(s[i])}
    IN  IF solid = {} THEN <<>> ELSE SubSeq(s, SetMin(solid), SetMax(solid))

\* s.rfind(sub, i, j): the highest offset p with s[p:p+len(sub)] = sub lying
\* wholly inside s[i:j], or -1
RFind(s, sub, i, j) ==
    LET a == PyIndex(i, Len(s))
        b == PyIndex(j, Len(s))
        hits == {p \in a..(b - Len(sub)) : SubSeq(s, p + 1, p + Len(sub)) = sub}
    IN  IF hits = {} THEN -1 ELSE SetMax(hits)

-----------------------------------------------------------------------------
(* chunk_text *)

HtmlDelims == << <<".", " ">>, <<"!", " ">>, <<"?", " ">>, <<"\n", "\n">> >>
PdfDelims == << <<".", " ">>, <<".", "\n">>, <<"!", " ">>, <<"?", " ">> >>

Delims(v) == IF v = "html" THEN HtmlDelims ELSE PdfDelims

\* (mutant) the HTML search also reaches back from the tentative end
WindowLoBothWays(v, end, w) == end - w

\* the bounds handed to rfind for a tentative end
WindowLo(v, end, w) == IF v = "html" THEN end ELSE end - w
WindowHi(v, t, end, w) == IF v = "html" THEN Min2(end + w, Len(t)) ELSE end + w

\* the for-loop over the delimiters: the first delimiter type found in the
\* window decides (break), at its right-most occurrence
RECURSIVE SnapFrom(_, _, _, _, _)
SnapFrom(v, t, end, w, k) ==
    IF k > Len(Delims(v)) THEN end
    ELSE LET punct == Delims(v)[k]
             punct_pos == RFind(t, punct, WindowLo(v, end, w), WindowHi(v, t, end, w))
         IN  IF punct_pos # -1 THEN punct_pos + Len(punct)
             ELSE SnapFrom(v, t, end, w, k + 1)

\* (mutant) the right-most delimiter of any type wins
SnapEndAnyType(v, t, end, w) ==
    LET ends == {RFind(t, Delims(v)[k], WindowLo(v, end, w), WindowHi(v, t, end, w))
                     + Len(Delims(v)[k]) : k \in 1..Len(Delims(v))}
        found == {e \in ends : e > 1}
    IN  IF found = {} THEN end ELSE SetMax(found)

\* (mutant) the search starts at the beginning of the text
SnapEndFromTextStart(v, t, end, w) ==
    LET hit == {k \in 1..Len(Delims(v)) : RFind(t, Delims(v)[k], 0, end + w) # -1}
    IN  IF hit = {} THEN end
        ELSE LET punct == Delims(v)[SetMin(hit)]
             IN  RFind(t, punct, 0, end + w) + Len(punct)

SnapEnd(v, t, end, w) == SnapFrom(v, t, end, w, 1)

\* (mutant) a chunk of exactly the threshold length is kept
KeepAtThreshold(chunk, m) == chunk # <<>> /\ Len(chunk) >= m

\* "if chunk and len(chunk) > 50" (100 in the PDF chunker)
Keep(chunk, m) == chunk # <<>> /\ Len(chunk) > m

\* (mutant) the next span starts after the previous one, without overlap
AdvancePastEnd(end, ov, n) == IF end < n THEN end + 1 ELSE n

\* "start = end - overlap if end < text_length else text_length"
Advance(end, ov, n) == IF end < n THEN end - ov ELSE n

\* the sampled runs stop recording after this many iterations; a run whose
\* cursor advances needs at most Len(text) of them
MaxIter == Len(text) + 2

ExampleText ==
    << "C", "l", "a", "u", "s", "e", " ", "o", "n", "e", " ", "e",
       "n", "d", "s", " ", "h", "e", "r", "e", ".", " ", "C", "l",
       "a", "u", "s", "e", " ", "t", "w", "o", " ", "b", "e", "g",
       "i", "n", "s", " ", "a", "n", "d", " ", "r", "u", "n", "s",
       " ", "l", "o", "n", "g", " ", "e", "n", "o", "u", "g", "h",
       " ", "t", "o", " ", "p", "a", "s", "s", " ", "t", "h", "e",
       " ", "t", "a", "r", "g", "e", "t", " ", "s", "i", "z", "e",
       " ", "t", "h", "r", "e", "s", "h", "o", "l", "d", " ", "b",
       "e", "f", "o", "r", "e", " ", "h", "i", "t", "t", "i", "n",
       "g", " ", "a", " ", "p", "e", "r", "i", "o", "d", "." >>
\* the example's target size and forward window
ExampleCall == [chunk_size |-> 30, window |-> 20]

\* long sample texts: sentences of L characters ending in ". ", a "? " every
\* 61 characters, words of six letters
LongText(L) ==
    [i \in 1..LongLen |->
        IF i % L = 0 THEN " "
        ELSE IF i % L = L - 1 THEN "."
        ELSE IF i % 61 = 0 THEN " "
        ELSE IF i % 61 = 60 THEN "?"
        ELSE IF i % 7 = 0 THEN " " ELSE "a"]
SentenceLengths == {97, 260, 450}

\* a text without sentence ends whose prose is broken by two long runs of
\* blanks around one word of exactly HtmlMinLen characters
SparseText ==
    [i \in 1..LongLen |->
        IF i \in 801..1200 \/ i \in (1201 + HtmlMinLen)..2000 THEN " " ELSE "a"]

Texts == UNION {[1..n -> Alphabet] : n \in 0..MaxLen}

ChunkInit ==
    /\ variant \in Variants
    /\ ipc = "idle"
    /\ files = <<>> /\ batch_size = 0 /\ fi = 0 /\ ci = 0 /\ call = 0
    /\ documents = <<>> /\ metadatas = <<>> /\ ids = <<>>
    /\ total_chunks = 0 /\ files_processed = 0 /\ files_skipped = 0
    /\ store = <<>> /\ calls = <<>> /\ generated = <<>>
    /\ run = 0 /\ first_run = <<>>
    /\ \/ /\ text \in Texts
          /\ chunk_size \in 1..MaxChunk
          /\ overlap \in 0..MaxOverlap
          /\ window = IF variant = "html" THEN HtmlWindowScaled ELSE PdfWindowScaled
          /\ min_len = IF variant = "html" THEN HtmlMinScaled ELSE PdfMinScaled
       \/ /\ text = ExampleText
          /\ chunk_size = ExampleCall.chunk_size
          /\ overlap \in {0, MaxOverlap}
          /\ window \in {ExampleCall.window,
                         IF variant = "html" THEN HtmlWindow ELSE PdfWindow}
          /\ min_len \in {HtmlMinScaled, IF variant = "html" THEN HtmlMinLen ELSE PdfMinLen}
       \/ /\ text \in {LongText(L) : L \in SentenceLengths} \cup {SparseText}
          /\ chunk_size = IF variant = "html" THEN HtmlChunkSize ELSE PdfChunkSize
          /\ overlap = IF variant = "html" THEN HtmlOverlap ELSE PdfOverlap
          /\ window = IF variant = "html" THEN HtmlWindow ELSE PdfWindow
          /\ min_len = IF variant = "html" THEN HtmlMinLen ELSE PdfMinLen
    /\ start = 0
    /\ chunks = <<>>
    /\ spans = <<>>
    /\ pc = "entry"

\* "if not text or len(text) == 0: return []", else the loop's set-up
ChunkEnter ==
    /\ pc = "entry"
    /\ pc' = IF Len(text) = 0 THEN "done" ELSE "loop"
    /\ start' = 0
    /\ chunks' = <<>>
    /\ UNCHANGED <<variant, text, chunk_size, overlap, window, min_len, spans>>
    /\ UNCHANGED ivars

\* one iteration of "while start < text_length"
ChunkIter ==
    /\ pc = "loop"
    /\ start < Len(text)
    /\ Len(spans) < MaxIter
    /\ LET tent == start + chunk_size
           end == IF tent < Len(text) THEN SnapEnd(variant, text, tent, window) ELSE tent
           chunk == Strip(Slice(text, start, end))
           keep == Keep(chunk, min_len)
       IN  /\ chunks' = IF keep THEN Append(chunks, chunk) ELSE chunks
           /\ spans' = Append(spans, [start |-> start, tent |-> tent,
                                      end |-> end, kept |-> keep])
           /\ start' = Advance(end, overlap, Len(text))
    /\ UNCHANGED <<variant, text, chunk_size, overlap, window, min_len, pc>>
    /\ UNCHANGED ivars

\* the loop condition fails: "return chunks"
ChunkReturn ==
    /\ pc = "loop"
    /\ start >= Len(text)
    /\ pc' = "done"
    /\ UNCHANGED <<variant, text, chunk_size, overlap, window, min_len, start, chunks, spans>>
    /\ UNCHANGED ivars

Init == ChunkInit

Next == ChunkEnter \/ ChunkIter \/ ChunkReturn

Spec == Init /\ [][Next]_vars

-----------------------------------------------------------------------------
(* Chunk identity *)

UpperCase == <<"A", "B", "C", "D", "E", "F", "G", "H", "I", "J", "K", "L", "M",
               "N", "O", "P", "Q", "R", "S", "T", "U", "V", "W", "X", "Y", "Z">>
LowerCase == <<"a", "b", "c", "d", "e", "f", "g", "h", "i", "j", "k", "l", "m",
               "n", "o", "p", "q", "r", "s", "t", "u", "v", "w", "x", "y", "z">>

\* str.lower()
Lower(s) ==
    [i \in 1..Len(s) |->
        IF \E k \in 1..26 : UpperCase[k] = s[i]
        THEN LowerCase[CHOOSE k \in 1..26 : UpperCase[k] = s[i]]
        ELSE s[i]]

Digits == <<"0", "1", "2", "3", "4", "5", "6", "7", "8", "9">>

\* the decimal text an f-string gives a non-negative int
RECURSIVE Str(_)
Str(n) == IF n < 10 THEN <<Digits[n + 1]>> ELSE Str(n \div 10) \o <<Digits[(n % 10) + 1]>>

\* hashlib.md5(s.encode()).hexdigest(), taken as injective on its input
Md5Hex(s) == <<"md5", s>>

\* (mutant) the index is counted on from the size of the collection
GenerateChunkIdFromCount(state, file_name, chunk_index) ==
    Md5Hex(state \o <<"_">> \o file_name \o <<"_">>
           \o Str(Cardinality(DOMAIN store) + chunk_index))

\* generate_chunk_id: md5 of f"{state}_{file_name}_{chunk_index}"
GenerateChunkId(state, file_name, chunk_index) ==
    Md5Hex(state \o <<"_">> \o file_name \o <<"_">> \o Str(chunk_index))

\* the PDF pipeline's id: md5 of f"{pdf_file.name}_{chunk_idx}"
PdfChunkId(file_name, chunk_idx) ==
    Md5Hex(file_name \o <<"_">> \o Str(chunk_idx))

-----------------------------------------------------------------------------
(* The folders: sampled directory and file names *)

\* directories under the root, in sorted order: state folders (HTML),
\* subdirectories the recursive glob descends into (PDF)
DirNames == << <<"N">>, <<"n", "_", "y">> >>
Stems == << <<"x">>, <<"y", "_", "x">> >>
Extension(v) == IF v = "html" THEN <<".", "h", "t", "m", "l">> ELSE <<".", "p", "d", "f">>

\* every path a listing can hold, in listing order
PathList(v) ==
    << [dir |-> DirNames[1], name |-> Stems[1] \o Extension(v)],
       [dir |-> DirNames[1], name |-> Stems[2] \o Extension(v)],
       [dir |-> DirNames[2], name |-> Stems[1] \o Extension(v)],
       [dir |-> DirNames[2], name |-> Stems[2] \o Extension(v)] >>

RECURSIVE Ascending(_)
Ascending(S) ==
    IF S = {} THEN <<>> ELSE <<SetMin(S)>> \o Ascending(S \ {SetMin(S)})

\* a listing: some of the paths, each with the number of chunks chunk_text
\* returns for the file's text (0: no text or no chunk, the file is skipped)
Listing(v, I, cnt) ==
    LET order == Ascending(I)
    IN  [k \in 1..Len(order) |->
            [dir |-> PathList(v)[order[k]].dir,
             name |-> PathList(v)[order[k]].name,
             n |-> cnt[order[k]]]]

Listings(v) ==
    {Listing(v, I, cnt) :
        I \in {J \in SUBSET (1..4) : Cardinality(J) \in 1..MaxFiles},
        cnt \in [1..4 -> 0..MaxChunksPerFile]}

\* one file of DefaultBatchSize + 1 chunks
BatchExample(v) ==
    << [dir |-> DirNames[1], name |-> Stems[1] \o Extension(v), n |-> DefaultBatchSize + 1] >>

-----------------------------------------------------------------------------
(* The record of one chunk *)

\* state_name = state_path.name.lower(); the PDF pipeline has one fixed source
Scope(v, f) == IF v = "html" THEN Lower(f.dir) ELSE <<"federal_law">>

RecordId(v, f, idx) ==
    IF v = "html" THEN GenerateChunkId(Scope(v, f), f.name, idx)
    ELSE PdfChunkId(f.name, idx)

\* the chunk's text: chunk idx of the text of that file
Document(f, idx) == <<f.dir, f.name, idx>>

Metadata(v, f, idx) ==
    [scope |-> Scope(v, f),
     file_name |-> f.name,
     file_path |-> <<f.dir, f.name>>,
     chunk_index |-> idx,
     total_chunks |-> f.n]

-----------------------------------------------------------------------------
(* The collection *)

\* Collection.add(documents, metadatas, ids): insert-or-update by id, entry
\* by entry
RECURSIVE CollectionAdd(_, _, _, _)
CollectionAdd(st, docs, metas, idl) ==
    IF idl = <<>> THEN st
    ELSE LET entry == [document |-> Head(docs), metadata |-> Head(metas)]
             put == [k \in DOMAIN st \cup {Head(idl)} |->
                        IF k = Head(idl) THEN entry ELSE st[k]]
         IN  CollectionAdd(put, Tail(docs), Tail(metas), Tail(idl))

\* Collection.count()
Count(st) == Cardinality(DOMAIN st)

EmptyCollection == [k \in {} |-> <<>>]

-----------------------------------------------------------------------------
(* process_all_states / process_state_folder / process_pdf_folder *)

\* (mutant) the batch is inserted once it has grown past batch_size
FlushDueLate(n, b) == n > b

\* "if len(documents) >= batch_size"
FlushDue(n, b) == n >= b

\* (mutant) the except branch keeps the batch for the next insert
AfterFailedAddKeep(list) == list

\* the except branch of the in-loop insert: "documents, metadatas, ids = [], [], []"
AfterFailedAdd(list) == <<>>

Failures == Cardinality({i \in 1..Len(calls) : ~calls[i].ok})
FailuresSoFar == Failures + (IF run = 2 THEN first_run.failures ELSE 0)
MayFail(ok) == IF ok THEN TRUE ELSE FailuresSoFar < MaxFail

\* sorted(state_folders), those that hold files: one process_state_folder
\* call each
StateFolders ==
    SelectSeq(DirNames, LAMBDA d : \E k \in 1..Len(files) : files[k].dir = d)

\* file k of the listing belongs to the running call: any file (PDF), a
\* file of the call's state folder (HTML)
InCall(k) ==
    /\ k <= Len(files)
    /\ IF variant = "html" THEN files[k].dir = StateFolders[call] ELSE TRUE

IngestInit ==
    /\ variant \in Variants
    /\ pc = "idle"
    /\ text = <<>> /\ chunk_size = 0 /\ overlap = 0 /\ window = 0 /\ min_len = 0
    /\ start = 0 /\ chunks = <<>> /\ spans = <<>>
    /\ \/ /\ files \in Listings(variant)
          /\ batch_size \in 1..MaxBatch
       \/ /\ files = BatchExample(variant)
          /\ batch_size = DefaultBatchSize
    /\ fi = 0 /\ ci = 0 /\ call = 1
    /\ documents = <<>> /\ metadatas = <<>> /\ ids = <<>>
    /\ total_chunks = 0 /\ files_processed = 0 /\ files_skipped = 0
    /\ store = EmptyCollection
    /\ calls = <<>> /\ generated = <<>>
    /\ run = 1 /\ first_run = <<>>
    /\ ipc = "files"

\* the for-loop takes the next file: extract, chunk, skip the file if there
\* is no text or no chunk
NextFile ==
    /\ ipc = "files"
    /\ InCall(fi + 1)
    /\ fi' = fi + 1
    /\ ci' = 0
    /\ IF files[fi + 1].n = 0
       THEN /\ files_skipped' = files_skipped + 1
            /\ UNCHANGED <<files_processed, ipc>>
       ELSE /\ files_processed' = files_processed + 1
            /\ ipc' = "chunks"
            /\ UNCHANGED files_skipped
    /\ UNCHANGED <<files, batch_size, call, documents, metadatas, ids, total_chunks,
                   store, calls, generated, run, first_run>>
    /\ UNCHANGED cvars

\* one turn of "for chunk_idx, chunk in enumerate(chunks)": append the record,
\* insert the batch when it is due; the insert succeeds or raises
AddChunk ==
    /\ ipc = "chunks"
    /\ LET f == files[fi]
           rec == [id |-> RecordId(variant, f, ci),
                   document |-> Document(f, ci),
                   metadata |-> Metadata(variant, f, ci),
                   call |-> call]
           docs == Append(documents, rec.document)
           metas == Append(metadatas, rec.metadata)
           idl == Append(ids, rec.id)
       IN  /\ generated' = Append(generated, rec)
           /\ total_chunks' = total_chunks + 1
           /\ IF FlushDue(Len(docs), batch_size)
              THEN \E ok \in BOOLEAN :
                      /\ MayFail(ok)
                      /\ calls' = Append(calls, [documents |-> docs, metadatas |-> metas,
                                                 ids |-> idl, ok |-> ok, call |-> call])
                      /\ IF ok
                         THEN /\ store' = CollectionAdd(store, docs, metas, idl)
                              /\ documents' = <<>>
                              /\ metadatas' = <<>>
                              /\ ids' = <<>>
                         ELSE /\ store' = store
                              /\ documents' = AfterFailedAdd(docs)
                              /\ metadatas' = AfterFailedAdd(metas)
                              /\ ids' = AfterFailedAdd(idl)
              ELSE /\ documents' = docs
                   /\ metadatas' = metas
                   /\ ids' = idl
                   /\ UNCHANGED <<store, calls>>
           /\ ci' = ci + 1
           /\ ipc' = IF ci + 1 < f.n THEN "chunks" ELSE "files"
    /\ UNCHANGED <<files, batch_size, fi, call, files_processed, files_skipped,
                   run, first_run>>
    /\ UNCHANGED cvars

\* the for-loop of the call is over: "if documents:" insert what remains,
\* then return.  The batch lists and counters are the call's locals; the
\* next state folder's call (HTML) starts from fresh ones, and after the
\* last call nothing is left of them.
FinalFlush ==
    /\ ipc = "files"
    /\ ~InCall(fi + 1)
    /\ \E ok \in BOOLEAN :
          /\ MayFail(ok)
          /\ IF documents = <<>> THEN ok ELSE TRUE
          /\ IF documents # <<>>
             THEN /\ calls' = Append(calls, [documents |-> documents,
                                             metadatas |-> metadatas,
                                             ids |-> ids, ok |-> ok, call |-> call])
                  /\ store' = IF ok THEN CollectionAdd(store, documents, metadatas, ids)
                              ELSE store
             ELSE UNCHANGED <<store, calls>>
    /\ documents' = <<>> /\ metadatas' = <<>> /\ ids' = <<>>
    /\ total_chunks' = 0 /\ files_processed' = 0 /\ files_skipped' = 0
    /\ IF fi < Len(files)
       THEN /\ call' = call + 1
            /\ UNCHANGED ipc
       ELSE /\ ipc' = "done"
            /\ UNCHANGED call
    /\ UNCHANGED <<files, batch_size, fi, ci, generated, run, first_run>>
    /\ UNCHANGED cvars

\* the same folder is ingested again, arguments unchanged, into the same
\* collection
Reingest ==
    /\ ipc = "done"
    /\ run = 1
    /\ run' = 2
    /\ first_run' = [count |-> Count(store),
                     ids |-> [k \in 1..Len(generated) |-> generated[k].id],
                     failures |-> Failures]
    /\ fi' = 0 /\ ci' = 0 /\ call' = 1
    /\ calls' = <<>> /\ generated' = <<>>
    /\ ipc' = "files"
    /\ UNCHANGED <<files, batch_size, documents, metadatas, ids, total_chunks,
                   files_processed, files_skipped, store>>
    /\ UNCHANGED cvars

IngestNext == NextFile \/ AddChunk \/ FinalFlush \/ Reingest

IngestSpec == IngestInit /\ [][IngestNext]_vars

-----------------------------------------------------------------------------
(* Properties of chunk_text *)

\* the raw (untrimmed) text of a recorded span
SpanText(sp) == Slice(text, sp.start, sp.end)
KeptSpans == SelectSeq(spans, LAMBDA sp : sp.kept)

\* delimiter d lies at offset p, wholly inside [lo, hi)
OccursAt(d, p, lo, hi) ==
    /\ lo <= p
    /\ p + Len(d) <= hi
    /\ p + Len(d) <= Len(text)
    /\ \A j \in 1..Len(d) : text[p + j] = d[j]
OccursIn(d, lo, hi) == \E p \in lo..hi : OccursAt(d, p, lo, hi)

\* the search window of a tentative end as the prose describes it: forward
\* only (HTML) or both ways (PDF), cut at the end of the text
ProseLo(tent) == IF variant = "html" THEN tent ELSE tent - window
ProseHi(tent) == Min2(tent + window, Len(text))

\* the part of the window that lies before the tentative end
BackWindow == IF variant = "html" THEN 0 ELSE window

\* C5: every returned chunk is non-empty, carries no leading or trailing
\* whitespace and is strictly longer than the threshold; a span is dropped
\* exactly when its trimmed text is at or below the threshold, and the
\* returned list is the trimmed text of the kept spans, nothing merged in.
C5_ChunksSubstantial ==
    /\ \A i \in 1..Len(chunks) :
          /\ chunks[i] # <<>>
          /\ ~IsSpace(chunks[i][1])
          /\ ~IsSpace(chunks[i][Len(chunks[i])])
          /\ Len(chunks[i]) > min_len
    /\ \A k \in 1..Len(spans) :
          spans[k].kept <=> Len(Strip(SpanText(spans[k]))) > min_len
    /\ Len(chunks) = Len(KeptSpans)
    /\ \A i \in 1..Len(chunks) : chunks[i] = Strip(SpanText(KeptSpans[i]))

\* C5 witness: a finished call of the HTML chunker, threshold 50, that kept
\* a chunk after trimming whitespace off it and dropped a span whose trimmed
\* text was exactly 50 characters long.
C5_Witness ==
    /\ pc = "done"
    /\ variant = "html" /\ min_len = HtmlMinLen
    /\ Len(chunks) >= 1
    /\ \E k \in 1..Len(spans) :
          spans[k].kept /\ Len(Strip(SpanText(spans[k]))) < Len(SpanText(spans[k]))
    /\ \E k \in 1..Len(spans) :
          ~spans[k].kept /\ Len(Strip(SpanText(spans[k]))) = min_len

\* C6 as stated: each kept span starts at or before the end of the kept span
\* before it (so the kept spans leave no hole).
C6_KeptSpansLeaveNoHole ==
    \A i \in 1..(Len(KeptSpans) - 1) : KeptSpans[i + 1].start <= KeptSpans[i].end

\* C6 amended: every span the loop visits, kept or dropped, starts exactly
\* overlap characters before the end of the span visited before it, hence at
\* or before that end; two kept spans are separated by a hole only where a
\* span between them was dropped.
C6_VisitedSpansAdjoin ==
    /\ \A k \in 1..(Len(spans) - 1) :
          /\ spans[k + 1].start = spans[k].end - overlap
          /\ spans[k + 1].start <= spans[k].end
    /\ \A k1 \in 1..Len(spans), k2 \in 1..Len(spans) :
          (/\ k1 < k2
           /\ spans[k1].kept /\ spans[k2].kept
           /\ \A k \in (k1 + 1)..(k2 - 1) : ~spans[k].kept
           /\ spans[k2].start > spans[k1].end)
          => k2 > k1 + 1

\* C6 witness: a finished call with the HTML pipeline's arguments in which
\* two spans kept in a row adjoin and a dropped span left a hole between two
\* other kept ones.
C6_Witness ==
    /\ pc = "done"
    /\ variant = "html" /\ min_len = HtmlMinLen
    /\ chunk_size = HtmlChunkSize /\ overlap = HtmlOverlap
    /\ \E k \in 1..(Len(spans) - 1) :
          spans[k].kept /\ spans[k + 1].kept /\ spans[k + 1].start <= spans[k].end
    /\ \E i \in 1..(Len(KeptSpans) - 1) : KeptSpans[i + 1].start > KeptSpans[i].end

IsExampleCall ==
    /\ text = ExampleText
    /\ variant = "html"
    /\ chunk_size = ExampleCall.chunk_size
    /\ window = ExampleCall.window

\* C7 as stated: on the example text with target size 30 and a forward
\* window of 20 the first span ends at offset 22, just past "here. ".
C7_ExampleSnapsTo22 ==
    (IsExampleCall /\ Len(spans) >= 1) => spans[1].end = 22

\* C7 amended: on the example text with target size 30 and a forward window
\* of 20 the first span ends at the raw offset 30: the only period-space of
\* the text lies at offset 20, before the window [30, 50), and no delimiter
\* lies inside the window.
C7_ExampleEndsAtRawOffset ==
    (IsExampleCall /\ Len(spans) >= 1)
    => /\ spans[1].start = 0
       /\ spans[1].end = 30
       /\ \A p \in 0..(Len(text) - 2) :
             (text[p + 1] = "." /\ text[p + 2] = " ") => p = 20
       /\ \A k \in 1..Len(HtmlDelims) : ~OccursIn(HtmlDelims[k], 30, 50)

\* C7 witness: the example call has gone through its first iteration.
C7_Witness == IsExampleCall /\ Len(spans) >= 1 /\ spans[1].tent = 30

\* C8 as stated: when a delimiter lies in the window the end is just past
\* the right-most occurrence over all delimiter types, else the tentative
\* end.  (The window is taken as rfind delimits it.)
C8_RightmostOfAnyType ==
    \A k \in 1..Len(spans) :
        LET sp == spans[k]
            D == Delims(variant)
            lo == PyIndex(WindowLo(variant, sp.tent, window), Len(text))
            hi == PyIndex(WindowHi(variant, text, sp.tent, window), Len(text))
            ends == {e \in lo..hi :
                        \E i \in 1..Len(D) : OccursAt(D[i], e - Len(D[i]), lo, hi)}
        IN  sp.tent < Len(text)
            => sp.end = (IF ends = {} THEN sp.tent ELSE SetMax(ends))

\* C8 amended: in an iteration whose tentative end is before the end of the
\* text and whose window does not begin before offset 0, the end is just
\* past the right-most occurrence of the first delimiter type, in the order
\* of the variant's list, that occurs in the window; later types are not
\* looked at; with no delimiter in the window the end stays tentative.
C8_RightmostOfFirstType ==
    \A k \in 1..Len(spans) :
        LET sp == spans[k]
            D == Delims(variant)
            lo == ProseLo(sp.tent)
            hi == ProseHi(sp.tent)
        IN  (sp.tent < Len(text) /\ lo >= 0)
            => \/ /\ \A i \in 1..Len(D) : ~OccursIn(D[i], lo, hi)
                  /\ sp.end = sp.tent
               \/ \E i \in 1..Len(D), p \in lo..hi :
                     /\ OccursAt(D[i], p, lo, hi)
                     /\ \A q \in (p + 1)..hi : ~OccursAt(D[i], q, lo, hi)
                     /\ \A j \in 1..(i - 1) : ~OccursIn(D[j], lo, hi)
                     /\ sp.end = p + Len(D[i])

\* C8 witness: an iteration whose window holds two delimiter types, the
\* later-listed one further right, and one whose window holds none.
C8_Witness ==
    /\ \E k \in 1..Len(spans) :
          LET sp == spans[k]
              D == Delims(variant)
              lo == ProseLo(sp.tent)
              hi == ProseHi(sp.tent)
          IN  /\ sp.tent < Len(text) /\ lo >= 0
              /\ \E i \in 1..Len(D), j \in 1..Len(D), p \in lo..hi, q \in lo..hi :
                    i < j /\ p < q /\ OccursAt(D[i], p, lo, hi) /\ OccursAt(D[j], q, lo, hi)
    /\ \E k \in 1..Len(spans) :
          spans[k].tent < Len(text) /\ spans[k].end = spans[k].tent

\* the arguments leave room to advance: what remains of chunk_size once the
\* backward part of the window is taken off exceeds the overlap
Productive == overlap >= 0 /\ chunk_size - BackWindow > overlap

\* C9: with chunk_size minus the backward window greater than the overlap,
\* the cursor is never negative and every loop iteration moves it strictly
\* forward, so the loop runs at most Len(text) times and then returns.
C9_CursorAdvances ==
    /\ [](Productive => (start >= 0 /\ Len(spans) <= Len(text)))
    /\ [][(Productive /\ pc = "loop" /\ start < Len(text)) => start' > start]_cvars

\* C9 witness: a finished call, with room to advance, of the PDF chunker
\* that snapped an end backwards and went round the loop again.
C9_Witness ==
    /\ pc = "done"
    /\ Productive
    /\ variant = "pdf"
    /\ Len(spans) >= 2
    /\ spans[1].end < spans[1].tent

-----------------------------------------------------------------------------
(* Properties of the batch loader and of the chunk ids *)

CallsOf(c) == SelectSeq(calls, LAMBDA e : e.call = c)
GeneratedIn(c) == SelectSeq(generated, LAMBDA r : r.call = c)
\* call c of the run has returned
Returned(c) == c < call \/ ipc = "done"

\* a record as Collection.add receives it
Triple(id, document, metadata) == [id |-> id, document |-> document, metadata |-> metadata]

\* the records of a sequence of add calls, call after call
RECURSIVE Submitted(_)
Submitted(cs) ==
    IF cs = <<>> THEN <<>>
    ELSE [k \in 1..Len(Head(cs).ids) |->
             Triple(Head(cs).ids[k], Head(cs).documents[k], Head(cs).metadatas[k])]
         \o Submitted(Tail(cs))

Records(gen) == [k \in 1..Len(gen) |-> Triple(gen[k].id, gen[k].document, gen[k].metadata)]
Buffered == [k \in 1..Len(ids) |-> Triple(ids[k], documents[k], metadatas[k])]
Range(q) == {q[k] : k \in 1..Len(q)}

\* C1: a returned call that generated N >= 1 records and saw no insert fail
\* made ceil(N / batch_size) add calls, all of batch_size records but the
\* last, which carries the remainder, and the calls carry the records in the
\* order they were generated; batch size 50 and 51 records give two calls,
\* of 50 and of 1.
C1_BatchesOfBatchSize ==
    \A c \in 1..call :
        LET cs == CallsOf(c)
            N == Len(GeneratedIn(c))
            B == batch_size
            K == (N + B - 1) \div B
        IN  (Returned(c) /\ N >= 1 /\ \A i \in 1..Len(cs) : cs[i].ok)
            => /\ Len(cs) = K
               /\ \A i \in 1..(K - 1) : Len(cs[i].ids) = B
               /\ Len(cs[K].ids) = N - B * (K - 1)
               /\ \A i \in 1..K : /\ Len(cs[i].documents) = Len(cs[i].ids)
                                  /\ Len(cs[i].metadatas) = Len(cs[i].ids)
               /\ Submitted(cs) = Records(GeneratedIn(c))
               /\ (B = 50 /\ N = 51)
                  => (Len(cs) = 2 /\ Len(cs[1].ids) = 50 /\ Len(cs[2].ids) = 1)

\* C1 witness: the run of batch size 50 over 51 records has ended without a
\* failed insert.
C1_Witness ==
    /\ ipc = "done"
    /\ batch_size = DefaultBatchSize
    /\ Len(generated) = DefaultBatchSize + 1
    /\ Len(calls) = 2
    /\ \A i \in 1..Len(calls) : calls[i].ok

\* every record the listing gives rise to, in order
RECURSIVE AllRecords(_)
AllRecords(k) ==
    IF k = 0 THEN <<>>
    ELSE AllRecords(k - 1)
         \o [i \in 1..files[k].n |->
                Triple(RecordId(variant, files[k], i - 1), Document(files[k], i - 1),
                       Metadata(variant, files[k], i - 1))]

\* C2: whichever add calls fail, the records submitted so far followed by the
\* buffered ones are exactly the records generated so far; so a failed insert
\* leaves the buffer empty, no record of a failed batch is submitted again,
\* no record is submitted twice, and at the end of the run every file has
\* been visited and every record has been passed to add exactly once.  A run
\* that has not ended stands at a chunk it can append or between two files.
C2_FailedBatchDroppedRunGoesOn ==
    LET sub == Submitted(calls)
        gen == Records(generated)
    IN  /\ ipc # "idle" => sub \o Buffered = gen
        /\ (calls # <<>> /\ ~calls[Len(calls)].ok /\ Len(sub) = Len(gen))
           => (documents = <<>> /\ metadatas = <<>> /\ ids = <<>>)
        /\ \A i \in 1..Len(calls), j \in 1..Len(calls) :
              (i < j /\ ~calls[i].ok)
              => Range(Submitted(<<calls[i]>>)) \cap Range(Submitted(<<calls[j]>>)) = {}
        /\ \A g \in 1..Len(gen) :
              Cardinality({q \in 1..Len(sub) : sub[q] = gen[g]}) <= 1
        /\ ipc = "done"
           => /\ fi = Len(files)
              /\ gen = AllRecords(Len(files))
              /\ \A g \in 1..Len(gen) :
                    Cardinality({q \in 1..Len(sub) : sub[q] = gen[g]}) = 1
        /\ ipc = "chunks" => (fi \in 1..Len(files) /\ ci < files[fi].n)
        /\ ipc = "files" => (fi <= Len(files) /\ (InCall(fi + 1) \/ fi > 0))

\* C2 witness: a run that has ended after an insert failed and a later
\* insert, holding records of a later file, succeeded.
C2_Witness ==
    /\ ipc = "done"
    /\ \E i \in 1..Len(calls), j \in 1..Len(calls) :
          /\ i < j
          /\ ~calls[i].ok
          /\ calls[j].ok
          /\ \E a \in 1..Len(calls[i].ids), b \in 1..Len(calls[j].ids) :
                calls[i].metadatas[a].file_path # calls[j].metadatas[b].file_path

IdInput(r) == <<r.metadata.scope, r.metadata.file_name, r.metadata.chunk_index>>

\* C4: records with the same (scope, file name, chunk index) get the same
\* id, and records that differ in one of the three get different ids.
C4_DistinctTriplesDistinctIds ==
    \A a \in 1..Len(generated), b \in 1..Len(generated) :
        (IdInput(generated[a]) = IdInput(generated[b]))
        <=> (generated[a].id = generated[b].id)

\* C10: at the end of a run without a failed insert, records of different
\* files never share an id, and every record generated is in the collection
\* under its id, with its text and metadata.
C10_FilesNeverShareIds ==
    (ipc = "done" /\ Failures = 0)
    => /\ \A a \in 1..Len(generated), b \in 1..Len(generated) :
             generated[a].metadata.file_path # generated[b].metadata.file_path
             => generated[a].id # generated[b].id
       /\ \A a \in 1..Len(generated) :
             /\ generated[a].id \in DOMAIN store
             /\ store[generated[a].id] = [document |-> generated[a].document,
                                          metadata |-> generated[a].metadata]

====
